---------------------------- MODULE Spec2Model ----------------------------
(***************************************************************************)
(* A model of the glyph export tools of data_process/:                     *)
(*   tosvgjpg.py      main / process_font_file / export_svg_for_glyph_...  *)
(*                    round_path_data / add_space_around_commands /        *)
(*                    safe_name_for_file                                   *)
(*   to_data_json.py  safe_name_for_file (the dataset assembler's copy)    *)
(*                                                                         *)
(* Text is modelled as a sequence of one-character strings, so that the    *)
(* regular-expression substitutions of the source act on characters.       *)
(* File names are modelled as sequences of code points.                    *)
(*                                                                         *)
(* Four specifications share the module, one per part of the program:      *)
(*   Spec      main and process_font_file (fonts, characters, failures)    *)
(*   SpecBox   get_glyph_bounds and export_svg_for_glyph_dynamic           *)
(*   SpecPath  round_path_data then add_space_around_commands, twice       *)
(*   SpecName  the two copies of safe_name_for_file                        *)
(***************************************************************************)
EXTENDS Integers, Sequences, FiniteSets, TLC

VARIABLES
    \* ---- Spec: main and process_font_file
    fontFiles,  \* font_files: the font files found, in the order processed
    charList,   \* char_list: the keys of stokes.json, in order
    exportJpg,  \* args.jpg
    pc,         \* where the run is: "main", "open", "setup", "loop", "done",
                \* "raised"
    fi,         \* index in fontFiles of the font being processed (0: none yet)
    ci,         \* index in charList of the next character of the loop
    cmap,       \* font.getBestCmap() of the current font: the characters it
                \* maps, or NoCmap
    handles,    \* fonts whose TTFont handle is open
    attempted,  \* characters of the current font handed to the exporters
    svgWritten, \* characters whose .svg file this call created
    jpgWritten, \* characters whose .jpg file this call created
    skipped,    \* characters of the current font skipped as absent
    printed,    \* characters whose failure was printed
    returned,   \* fonts for which process_font_file returned
    raisedAt,   \* the call whose exception left main ("none" while running)
    \* ---- SpecBox: get_glyph_bounds and export_svg_for_glyph_dynamic
    glyph,      \* the glyph: how it exposes its box, and its outline points
    scale_size, \* the canvas size S
    bounds,     \* what get_glyph_bounds returned
    doc,        \* the document written: viewBox, width, height, path data
    pcBox,      \* "start", "bounded", "written"
    \* ---- SpecPath: the canonicalisation of a path string
    raw,        \* the raw render handed to round_path_data
    cur,        \* the text after the steps applied so far
    rounded1,   \* the text after the first round_path_data
    canon1,     \* the text after the first add_space_around_commands
    stage,      \* number of steps applied: 0 raw, 1 rounded, 2 canonical,
                \* 3 rounded again, 4 canonical again
    \* ---- SpecName: the two copies of safe_name_for_file
    nameChar,     \* the character, as its code point
    exporterName, \* the base name process_font_file writes to
    datasetName,  \* the base name build_json_for_char looks for
    pcName        \* "start", "exported", "assembled"

varsRun == <<fontFiles, charList, exportJpg, pc, fi, ci, cmap, handles,
             attempted, svgWritten, jpgWritten, skipped, printed, returned,
             raisedAt>>
varsBox == <<glyph, scale_size, bounds, doc, pcBox>>
varsPath == <<raw, cur, rounded1, canon1, stage>>
varsName == <<nameChar, exporterName, datasetName, pcName>>
vars == <<varsRun, varsBox, varsPath, varsName>>

\* the value of a part of the program that a specification does not run
None == "none"
NoDoc == [viewBox |-> << >>, width |-> 0, height |-> 0, d |-> << >>]
NoGlyph == [kind |-> "plain", pts |-> << >>, box |-> << >>]
\* getBestCmap() returned None
NoCmap == [table |-> FALSE, chars |-> {}]
IdleRun ==
    /\ fontFiles = << >> /\ charList = << >> /\ exportJpg = FALSE
    /\ pc = "done" /\ fi = 0 /\ ci = 0 /\ cmap = NoCmap /\ handles = {}
    /\ attempted = {} /\ svgWritten = {} /\ jpgWritten = {} /\ skipped = {}
    /\ printed = {} /\ returned = {} /\ raisedAt = None
IdleBox ==
    /\ glyph = NoGlyph /\ scale_size = 0 /\ bounds = << >> /\ doc = NoDoc
    /\ pcBox = "written"
IdlePath ==
    /\ raw = << >> /\ cur = << >> /\ rounded1 = << >> /\ canon1 = << >>
    /\ stage = 4
IdleName ==
    /\ nameChar = 0 /\ exporterName = << >> /\ datasetName = << >>
    /\ pcName = "assembled"

-----------------------------------------------------------------------------
(***************************************************************************)
(* Bounds of the model.                                                    *)
(***************************************************************************)
\* longest path string drawn from PathAlphabet
MaxLen == 4
\* most integer digits a numeric token may denote, and largest exponent it
\* may carry: the tokens modelled have a few significant digits, and such a
\* number of this size is a double, so float() and round() are exact on it
MaxIntDigits == 15
\* most points of a glyph's outline
MaxPts == 2
\* largest canvas size drawn for scale_size
MaxS == 3
\* most font files found under the fonts directory
MaxFonts == 2

-----------------------------------------------------------------------------
(***************************************************************************)
(* Characters.                                                             *)
(***************************************************************************)
Digits == {"0", "1", "2", "3", "4", "5", "6", "7", "8", "9"}

DigitVal(c) ==
    CASE c = "0" -> 0 [] c = "1" -> 1 [] c = "2" -> 2 [] c = "3" -> 3
      [] c = "4" -> 4 [] c = "5" -> 5 [] c = "6" -> 6 [] c = "7" -> 7
      [] c = "8" -> 8 [] c = "9" -> 9

DigitChar(n) ==
    CASE n = 0 -> "0" [] n = 1 -> "1" [] n = 2 -> "2" [] n = 3 -> "3"
      [] n = 4 -> "4" [] n = 5 -> "5" [] n = 6 -> "6" [] n = 7 -> "7"
      [] n = 8 -> "8" [] n = 9 -> "9"

\* cmds = "MLHVCSQTAZmlhvcsqtaz"
CmdLetters ==
    {"M", "L", "H", "V", "C", "S", "Q", "T", "A", "Z",
     "m", "l", "h", "v", "c", "s", "q", "t", "a", "z"}

\* the characters \s matches, among those modelled
Whitespace == {" ", "\t", "\n"}

Max(S) == CHOOSE x \in S : \A y \in S : y <= x

RECURSIVE Flatten(_)
\* the concatenation of the sequences of ss: what re.sub builds from the
\* replacement of each position
Flatten(ss) ==
    IF ss = << >> THEN << >> ELSE Head(ss) \o Flatten(Tail(ss))

-----------------------------------------------------------------------------
(***************************************************************************)
(* round_path_data: re.sub(r"-?\d+\.?\d*(?:e[-+]?\d+)?", repl, d_attr)     *)
(* with repl(m) = str(int(round(float(m.group(0))))).                      *)
(***************************************************************************)

\* the last index of the run of digits that starts at i (i - 1 when s[i] is
\* no digit): what a greedy \d* consumes from i
DigitRunEnd(s, i) ==
    Max({j \in (i - 1)..Len(s) : \A k \in i..j : s[k] \in Digits})

\* the end of the regular expression's match starting exactly at i, or 0 when
\* it does not match there. Every quantifier is greedy and everything after
\* \d+ is optional, so the first match the engine finds is the longest one.
MatchEnd(s, i) ==
    LET j0 == IF s[i] = "-" THEN i + 1 ELSE i
        a  == DigitRunEnd(s, j0)
    IN  IF a < j0 THEN 0
        ELSE
          LET b == IF a + 1 <= Len(s) /\ s[a + 1] = "."
                   THEN DigitRunEnd(s, a + 2) ELSE a
              k == IF b + 2 <= Len(s) /\ s[b + 2] \in {"-", "+"}
                   THEN b + 3 ELSE b + 2
              z == DigitRunEnd(s, k)
          IN  IF b + 1 <= Len(s) /\ s[b + 1] = "e" /\ z >= k THEN z ELSE b

RECURSIVE DigitsToNat(_)
DigitsToNat(ds) ==
    IF ds = << >> THEN 0
    ELSE 10 * DigitsToNat(SubSeq(ds, 1, Len(ds) - 1)) + DigitVal(ds[Len(ds)])

\* float(): the token s[i..j] read as sign, integer digits, fraction digits
\* and decimal exponent
ParseNumber(s, i, j) ==
    LET neg == s[i] = "-"
        j0  == IF neg THEN i + 1 ELSE i
        a   == DigitRunEnd(s, j0)
        dot == a + 1 <= j /\ s[a + 1] = "."
        b   == IF dot THEN DigitRunEnd(s, a + 2) ELSE a
        hasE == b < j
        eneg == hasE /\ s[b + 2] = "-"
        k   == IF hasE /\ s[b + 2] \in {"-", "+"} THEN b + 3 ELSE b + 2
        mag == IF hasE THEN DigitsToNat(SubSeq(s, k, j)) ELSE 0
    IN  [neg |-> neg,
         ip  |-> SubSeq(s, j0, a),
         fp  |-> IF dot THEN SubSeq(s, a + 2, b) ELSE << >>,
         ex  |-> IF eneg THEN 0 - mag ELSE mag]

Zeros(n) == [k \in 1..n |-> "0"]

\* the digits of the token's value before and after the decimal point
IntDigits(t) ==
    LET D == t.ip \o t.fp
        p == Len(t.ip) + t.ex
    IN  IF p <= 0 THEN << >>
        ELSE IF p >= Len(D) THEN D \o Zeros(p - Len(D))
        ELSE SubSeq(D, 1, p)

FracDigits(t) ==
    LET D == t.ip \o t.fp
        p == Len(t.ip) + t.ex
    IN  IF p >= Len(D) THEN << >>
        ELSE IF p <= 0 THEN Zeros(0 - p) \o D
        ELSE SubSeq(D, p + 1, Len(D))

\* the fraction compared with one half: -1 below, 0 equal, 1 above
CmpHalf(F) ==
    IF F = << >> \/ DigitVal(F[1]) < 5 THEN -1
    ELSE IF DigitVal(F[1]) > 5 THEN 1
    ELSE IF \E k \in 2..Len(F) : F[k] # "0" THEN 1 ELSE 0

IsOdd(I) == I # << >> /\ DigitVal(I[Len(I)]) % 2 = 1

RECURSIVE Increment(_)
\* the digits of I + 1
Increment(I) ==
    IF I = << >> THEN <<"1">>
    ELSE IF I[Len(I)] = "9"
         THEN Increment(SubSeq(I, 1, Len(I) - 1)) \o <<"0">>
         ELSE SubSeq(I, 1, Len(I) - 1) \o <<DigitChar(DigitVal(I[Len(I)]) + 1)>>

RECURSIVE StripZeros(_)
StripZeros(I) ==
    IF I # << >> /\ I[1] = "0" THEN StripZeros(Tail(I)) ELSE I

\* round(): Python 3 rounds a float to the nearest integer and, on a tie, to
\* the even one. TRUE when the magnitude is rounded up.
RoundsUp(t) ==
    \/ CmpHalf(FracDigits(t)) = 1
    \/ CmpHalf(FracDigits(t)) = 0 /\ IsOdd(IntDigits(t))

\* str(int(...)): decimal digits, no leading zeros, "-" only before a
\* non-zero magnitude (int(-0.0) is 0)
RenderInt(neg, I) ==
    LET m == StripZeros(I)
    IN  IF m = << >> THEN <<"0">>
        ELSE IF neg THEN <<"-">> \o m ELSE m

RECURSIVE Decrement(_)
\* the digits of I - 1, for I denoting a positive number
Decrement(I) ==
    IF I[Len(I)] = "0"
    THEN Decrement(SubSeq(I, 1, Len(I) - 1)) \o <<"9">>
    ELSE SubSeq(I, 1, Len(I) - 1) \o <<DigitChar(DigitVal(I[Len(I)]) - 1)>>

\* a slip: int(float(m.group(0)) + 0.5), which truncates towards zero and so
\* moves every negative integer one step towards zero
ReplTruncHalf(s, i, j) ==
    LET t == ParseNumber(s, i, j)
        I == IntDigits(t)
        c == CmpHalf(FracDigits(t))
    IN  IF ~t.neg THEN RenderInt(FALSE, IF c >= 0 THEN Increment(I) ELSE I)
        ELSE IF c >= 0 \/ StripZeros(I) = << >> THEN RenderInt(TRUE, I)
        ELSE RenderInt(TRUE, Decrement(StripZeros(I)))

\* repl(m)
Repl(s, i, j) ==
    LET t == ParseNumber(s, i, j)
        I == IntDigits(t)
    IN  RenderInt(t.neg, IF RoundsUp(t) THEN Increment(I) ELSE I)

RECURSIVE RoundFrom(_, _)
\* re.sub scans left to right: a match is replaced and the scan resumes after
\* it; a character where no match starts is copied
RoundFrom(s, i) ==
    IF i > Len(s) THEN << >>
    ELSE LET e == MatchEnd(s, i)
         IN  IF e = 0 THEN <<s[i]>> \o RoundFrom(s, i + 1)
             ELSE Repl(s, i, e) \o RoundFrom(s, e + 1)

round_path_data(d_attr) == RoundFrom(d_attr, 1)

-----------------------------------------------------------------------------
(***************************************************************************)
(* add_space_around_commands                                               *)
(***************************************************************************)

\* re.sub(f"(?<=\\d)([{cmds}])", r" \1", d_attr)
SpaceBefore(s, i) ==
    IF s[i] \in CmdLetters /\ i > 1 /\ s[i - 1] \in Digits
    THEN <<" ", s[i]>> ELSE <<s[i]>>

\* re.sub(f"([{cmds}])(?=\\d)", r"\1 ", d_attr)
SpaceAfter(s, i) ==
    IF s[i] \in CmdLetters /\ i < Len(s) /\ s[i + 1] \in Digits
    THEN <<s[i], " ">> ELSE <<s[i]>>

\* re.sub(r"\s+", " ", d_attr)
CollapseSpace(s, i) ==
    IF s[i] \notin Whitespace THEN <<s[i]>>
    ELSE IF i > 1 /\ s[i - 1] \in Whitespace THEN << >> ELSE <<" ">>

\* d_attr.strip()
Strip(s) ==
    LET keep == {k \in 1..Len(s) : s[k] \notin Whitespace}
    IN  IF keep = {} THEN << >>
        ELSE SubSeq(s, CHOOSE k \in keep : \A m \in keep : k <= m, Max(keep))

\* a slip: the second substitution (a letter followed by a digit) left out
AddSpaceBeforeOnly(d_attr) ==
    LET s1 == Flatten([k \in 1..Len(d_attr) |-> SpaceBefore(d_attr, k)])
        s3 == Flatten([k \in 1..Len(s1) |-> CollapseSpace(s1, k)])
    IN  Strip(s3)

add_space_around_commands(d_attr) ==
    LET s1 == Flatten([k \in 1..Len(d_attr) |-> SpaceBefore(d_attr, k)])
        s2 == Flatten([k \in 1..Len(s1) |-> SpaceAfter(s1, k)])
        s3 == Flatten([k \in 1..Len(s2) |-> CollapseSpace(s2, k)])
    IN  Strip(s3)

\* the two steps export_svg_for_glyph_dynamic applies to the raw render
Canon(d) == add_space_around_commands(round_path_data(d))

-----------------------------------------------------------------------------
(***************************************************************************)
(* SpecPath: the inputs and the steps.                                     *)
(***************************************************************************)
PathAlphabet == {"M", "Z", "0", "2", "5", "-", ".", "e", ",", " "}

ShortStrings == UNION {[1..n -> PathAlphabet] : n \in 0..MaxLen}

\* "M10.6,20.4C30,40,50,60,70.49,80"
ScenarioD ==
    <<"M", "1", "0", ".", "6", ",", "2", "0", ".", "4", "C", "3", "0", ",",
      "4", "0", ",", "5", "0", ",", "6", "0", ",", "7", "0", ".", "4", "9",
      ",", "8", "0">>

\* "M10.6 20.4C30 40 50 60 70.49 80ZM-1.5 2.5e+1\nL3e-1 9.5Z"
SpacedRender ==
    <<"M", "1", "0", ".", "6", " ", "2", "0", ".", "4", "C", "3", "0", " ",
      "4", "0", " ", "5", "0", " ", "6", "0", " ", "7", "0", ".", "4", "9",
      " ", "8", "0", "Z", "M", "-", "1", ".", "5", " ", "2", ".", "5", "e",
      "+", "1", "\n", "L", "3", "e", "-", "1", "\t", " ", "9", ".", "5", "Z">>

Examples == {ScenarioD, SpacedRender}

\* the numeric tokens of s, as <<first, last>> index pairs, in the order the
\* scan of round_path_data meets them
RECURSIVE TokensFrom(_, _)
TokensFrom(s, i) ==
    IF i > Len(s) THEN {}
    ELSE LET e == MatchEnd(s, i)
         IN  IF e = 0 THEN TokensFrom(s, i + 1)
             ELSE {<<i, e>>} \cup TokensFrom(s, e + 1)

Tokens(s) == TokensFrom(s, 1)

\* every numeric token of s denotes a number float() and round() treat
\* exactly
Exact(s) ==
    \A t \in Tokens(s) :
        LET n == ParseNumber(s, t[1], t[2])
        IN  /\ n.ex <= MaxIntDigits
            /\ n.ex >= 0 - MaxIntDigits
            /\ Len(n.ip) + n.ex <= MaxIntDigits

PathInputs == {s \in ShortStrings \cup Examples : Exact(s) /\ Exact(Canon(s))}

InitPath ==
    /\ IdleRun /\ IdleBox /\ IdleName
    /\ raw \in PathInputs
    /\ cur = raw
    /\ rounded1 = << >>
    /\ canon1 = << >>
    /\ stage = 0

\* d_attr = round_path_data(d_attr)
RoundStep ==
    /\ stage \in {0, 2}
    /\ cur' = round_path_data(cur)
    /\ rounded1' = IF stage = 0 THEN cur' ELSE rounded1
    /\ stage' = stage + 1
    /\ UNCHANGED <<raw, canon1, varsRun, varsBox, varsName>>

\* d_attr = add_space_around_commands(d_attr)
SpaceStep ==
    /\ stage \in {1, 3}
    /\ cur' = add_space_around_commands(cur)
    /\ canon1' = IF stage = 1 THEN cur' ELSE canon1
    /\ stage' = stage + 1
    /\ UNCHANGED <<raw, rounded1, varsRun, varsBox, varsName>>

NextPath == RoundStep \/ SpaceStep

SpecPath == InitPath /\ [][NextPath]_vars

-----------------------------------------------------------------------------
(***************************************************************************)
(* safe_name_for_file, in tosvgjpg.py and in to_data_json.py.  A character *)
(* is its code point (ord) and a name is a sequence of code points.        *)
(***************************************************************************)

\* the characters modelled: ASCII, and beyond it U+0085, U+00A0, U+00AD,
\* U+0378, U+200B, U+2028, U+3000, U+4E00, U+D800, U+E000, U+1F600, U+10FFFF
CodePoints ==
    (0..127) \cup {133, 160, 173, 888, 8203, 8232, 12288, 19968, 55296,
                   57344, 128512, 1114111}

\* the characters of the class / \ : * ? " < > |
ReservedChars == {47, 92, 58, 42, 63, 34, 60, 62, 124}

\* a slip: the backslash of the class taken as an escape of the colon
bad_chars_unescaped == ReservedChars \ {92}

\* bad_chars = r'[/\\:*?"<>|]', tosvgjpg.py
bad_chars == ReservedChars

\* bad_chars = r'[/\\:*?"<>|]', to_data_json.py
bad_chars_dataset == ReservedChars

\* unicodedata.category(char).startswith("C"): Cc, Cf, Cs, Co and Cn among
\* the characters modelled
CategoryC(char) ==
    \/ char \in 0..31 \/ char = 127 \/ char = 133
    \/ char \in {173, 8203}
    \/ char = 55296
    \/ char = 57344
    \/ char \in {888, 1114111}

\* char.isspace(), among the characters modelled
IsSpace(char) ==
    char \in (9..13) \cup (28..32) \cup {133, 160, 8232, 12288}

HexChar(n) == IF n < 10 THEN 48 + n ELSE 55 + n

RECURSIVE HexDigits(_)
\* the hexadecimal digits of cp, upper case, without padding
HexDigits(cp) ==
    IF cp < 16 THEN <<HexChar(cp)>>
    ELSE HexDigits(cp \div 16) \o <<HexChar(cp % 16)>>

\* f"U+{cp:04X}"
UPlus(cp) ==
    LET h == HexDigits(cp)
        pad == IF Len(h) < 4 THEN [k \in 1..(4 - Len(h)) |-> 48] ELSE << >>
    IN  <<85, 43>> \o pad \o h

\* safe_name_for_file(char, cp) of tosvgjpg.py
safe_name_for_file(char, cp) ==
    IF char \in bad_chars THEN UPlus(cp)
    ELSE IF CategoryC(char) \/ IsSpace(char) THEN UPlus(cp)
    ELSE <<char>>

\* safe_name_for_file(char, cp=None) of to_data_json.py; NoCp is cp=None
NoCp == 0 - 1
safe_name_for_file_dataset(char, cp) ==
    LET c == IF cp = NoCp THEN char ELSE cp
    IN  IF char \in bad_chars_dataset THEN UPlus(c)
        ELSE IF CategoryC(char) \/ IsSpace(char) THEN UPlus(c)
        ELSE <<char>>

InitName ==
    /\ IdleRun /\ IdleBox /\ IdlePath
    /\ nameChar \in CodePoints
    /\ exporterName = << >>
    /\ datasetName = << >>
    /\ pcName = "start"

\* process_font_file: cp = ord(char); filename_base = safe_name_for_file(char, cp)
ExporterNamesFile ==
    /\ pcName = "start"
    /\ exporterName' = safe_name_for_file(nameChar, nameChar)
    /\ pcName' = "exported"
    /\ UNCHANGED <<nameChar, datasetName, varsRun, varsBox, varsPath>>

\* build_json_for_char: f"{safe_name_for_file(char)}.svg"
DatasetNamesFile ==
    /\ pcName = "exported"
    /\ datasetName' = safe_name_for_file_dataset(nameChar, NoCp)
    /\ pcName' = "assembled"
    /\ UNCHANGED <<nameChar, exporterName, varsRun, varsBox, varsPath>>

NextName == ExporterNamesFile \/ DatasetNamesFile

SpecName == InitName /\ [][NextName]_vars

-----------------------------------------------------------------------------
(***************************************************************************)
(* get_glyph_bounds and export_svg_for_glyph_dynamic.  Coordinates are     *)
(* integers (design units); a scaled value is the exact fraction n / m,    *)
(* which the source holds as a double.                                     *)
(***************************************************************************)
Min(S) == CHOOSE x \in S : \A y \in S : x <= y

Coords == {0 - 1, 0, 1, 3}
Points == Coords \X Coords
Outlines == UNION {[1..n -> Points] : n \in 0..MaxPts}

\* how the glyph object exposes its box: a boundingBox() method, a bounds
\* attribute, a bounds attribute that is None, or neither
GlyphKinds == {"boundingBox", "bounds", "boundsNone", "plain"}

\* min(xs), min(ys), max(xs), max(ys) over the points of every command, and
\* 0,0,0,0 when there are none
RecordedBox(pts) ==
    IF pts = << >> THEN <<0, 0, 0, 0>>
    ELSE LET xs == {pts[k][1] : k \in 1..Len(pts)}
             ys == {pts[k][2] : k \in 1..Len(pts)}
         IN  <<Min(xs), Min(ys), Max(xs), Max(ys)>>

\* the box a font stores for the glyph: its tight box
Glyphs ==
    {[kind |-> k, pts |-> p,
      box |-> IF k \in {"boundingBox", "bounds"} THEN RecordedBox(p) ELSE << >>]
        : k \in GlyphKinds, p \in Outlines}

get_glyph_bounds(g) ==
    IF g.kind = "boundingBox" THEN g.box
    ELSE IF g.kind = "bounds" THEN g.box
    ELSE RecordedBox(g.pts)

\* width and height after "if width == 0 or height == 0: width = height =
\* scale_size"
Extent(b, S) ==
    LET width  == b[3] - b[1]
        height == b[4] - b[2]
    IN  IF width = 0 \/ height = 0 THEN <<S, S>> ELSE <<width, height>>

\* scale = scale_size / max(width, height), as the fraction S / ScaleDen
ScaleDen(b, S) == Max({Extent(b, S)[1], Extent(b, S)[2]})

\* the transform (scale, 0, 0, -scale, -xmin*scale, ymax*scale) applied to a
\* point: the numerators of x' and y' over ScaleDen
TransformX(x, b, S) == (x - b[1]) * S
TransformY(y, b, S) == (b[4] - y) * S

\* round(n / m) for m > 0: to the nearest integer, a tie to the even one
RoundRat(n, m) ==
    LET q == n \div m
        r == n % m
    IN  IF 2 * r < m THEN q
        ELSE IF 2 * r > m THEN q + 1
        ELSE IF q % 2 = 0 THEN q ELSE q + 1

RECURSIVE NatText(_)
NatText(n) ==
    IF n < 10 THEN <<DigitChar(n)>>
    ELSE NatText(n \div 10) \o <<DigitChar(n % 10)>>

IntText(n) == IF n < 0 THEN <<"-">> \o NatText(0 - n) ELSE NatText(n)

\* path_pen.getCommands() after round_path_data: SVGPathPen writes nothing
\* for an empty outline and otherwise a command letter and the operands of
\* each point, which round_path_data replaces by the rounded values
RoundedCommand(pts, b, S, k) ==
    <<IF k = 1 THEN "M" ELSE "L">>
        \o IntText(RoundRat(TransformX(pts[k][1], b, S), ScaleDen(b, S)))
        \o <<" ">>
        \o IntText(RoundRat(TransformY(pts[k][2], b, S), ScaleDen(b, S)))

RECURSIVE RoundedCommands(_, _, _, _)
RoundedCommands(pts, b, S, k) ==
    IF k > Len(pts) THEN (IF pts = << >> THEN << >> ELSE <<"Z">>)
    ELSE RoundedCommand(pts, b, S, k) \o RoundedCommands(pts, b, S, k + 1)

\* a slip: no fallback for an empty path
KeepPath(d_attr) == d_attr

\* if not d_attr: d_attr = "M0 0"
PathOrFallback(d_attr) ==
    IF d_attr = << >> THEN <<"M", "0", " ", "0">> ELSE d_attr

IsPowerOfTwo(q) == \E k \in 0..q : 2 ^ k = q

RECURSIVE Gcd(_, _)
Gcd(a, b) == IF b = 0 THEN a ELSE Gcd(b, a % b)

\* int(extent * scale): the quotient extent * S / m truncated. When S / m is
\* no binary fraction the double `scale` is inexact, and a product that is
\* an integer in exact arithmetic may be computed just below it.
Pixels(extent, S, m) ==
    {(extent * S) \div m}
        \cup IF (extent * S) % m = 0 /\ ~IsPowerOfTwo(m \div Gcd(S, m))
             THEN {((extent * S) \div m) - 1} ELSE {}

InitBox ==
    /\ IdleRun /\ IdlePath /\ IdleName
    /\ glyph \in Glyphs
    /\ scale_size \in 1..MaxS
    /\ bounds = << >>
    /\ doc = NoDoc
    /\ pcBox = "start"

\* xmin, ymin, xmax, ymax = get_glyph_bounds(font, glyph_name)
GetBounds ==
    /\ pcBox = "start"
    /\ bounds' = get_glyph_bounds(glyph)
    /\ pcBox' = "bounded"
    /\ UNCHANGED <<glyph, scale_size, doc, varsRun, varsPath, varsName>>

\* the rest of export_svg_for_glyph_dynamic: the transform, the path data and
\* the document
EmitDocument ==
    /\ pcBox = "bounded"
    /\ LET wh == Extent(bounds, scale_size)
           m  == ScaleDen(bounds, scale_size)
           d  == PathOrFallback(add_space_around_commands(
                     RoundedCommands(glyph.pts, bounds, scale_size, 1)))
       IN  \E W \in Pixels(wh[1], scale_size, m),
              H \in Pixels(wh[2], scale_size, m) :
                doc' = [viewBox |-> <<0, 0, W, H>>, width |-> W,
                        height |-> H, d |-> d]
    /\ pcBox' = "written"
    /\ UNCHANGED <<glyph, scale_size, bounds, varsRun, varsPath, varsName>>

NextBox == GetBounds \/ EmitDocument

SpecBox == InitBox /\ [][NextBox]_vars

-----------------------------------------------------------------------------
(***************************************************************************)
(* main and process_font_file of tosvgjpg.py.                              *)
(***************************************************************************)
Chars == {"a", "b", "c"}

\* a font file: TTFont parses it and it has a Unicode cmap ("ok"), TTFont
\* raises on it ("corrupt"), or it parses and getBestCmap() returns None
\* ("nocmap")
FontKinds == {"ok", "corrupt", "nocmap"}

\* list(stokes_data.keys()): the keys of a JSON object, each once
CharLists ==
    {cl \in UNION {[1..n -> Chars] : n \in 0..Cardinality(Chars)} :
        \A j \in 1..Len(cl), k \in 1..Len(cl) : j # k => cl[j] # cl[k]}

FontLists == UNION {[1..n -> FontKinds] : n \in 0..MaxFonts}

Init ==
    /\ IdleBox /\ IdlePath /\ IdleName
    /\ fontFiles \in FontLists
    /\ charList \in CharLists
    /\ exportJpg \in BOOLEAN
    /\ pc = "main"
    /\ fi = 0
    /\ ci = 0
    /\ cmap = NoCmap
    /\ handles = {}
    /\ attempted = {} /\ svgWritten = {} /\ jpgWritten = {}
    /\ skipped = {} /\ printed = {}
    /\ returned = {}
    /\ raisedAt = None

unchangedOthers == UNCHANGED <<varsBox, varsPath, varsName>>

\* main: for font_path in tqdm(font_files): process_font_file(font_path, ...)
MainNextFont ==
    /\ pc = "main" /\ fi < Len(fontFiles)
    /\ fi' = fi + 1
    /\ pc' = "open"
    /\ ci' = 0 /\ cmap' = NoCmap
    /\ attempted' = {} /\ svgWritten' = {} /\ jpgWritten' = {}
    /\ skipped' = {} /\ printed' = {}
    /\ UNCHANGED <<fontFiles, charList, exportJpg, handles, returned, raisedAt>>
    /\ unchangedOthers

\* main: the loop over the fonts is over
MainDone ==
    /\ pc = "main" /\ fi = Len(fontFiles)
    /\ pc' = "done"
    /\ UNCHANGED <<fontFiles, charList, exportJpg, fi, ci, cmap, handles,
                   attempted, svgWritten, jpgWritten, skipped, printed,
                   returned, raisedAt>>
    /\ unchangedOthers

\* font = TTFont(ttf_path): an exception leaves process_font_file and, main
\* catching nothing, main
OpenFont ==
    /\ pc = "open"
    /\ IF fontFiles[fi] = "corrupt"
       THEN /\ pc' = "raised" /\ raisedAt' = "TTFont"
            /\ UNCHANGED handles
       ELSE /\ pc' = "setup"
            /\ handles' = handles \cup {fi}
            /\ UNCHANGED raisedAt
    /\ UNCHANGED <<fontFiles, charList, exportJpg, fi, ci, cmap, attempted,
                   svgWritten, jpgWritten, skipped, printed, returned>>
    /\ unchangedOthers

\* cmap = font.getBestCmap(); os.makedirs(svg_dir, exist_ok=True) and, with
\* export_jpg, os.makedirs(jpg_dir, exist_ok=True), which raise when the
\* directory cannot be made
SetupFont ==
    /\ pc = "setup"
    /\ \E dirsMade \in BOOLEAN, table \in SUBSET Chars :
          /\ cmap' = IF fontFiles[fi] = "nocmap" THEN NoCmap
                     ELSE [table |-> TRUE, chars |-> table]
          /\ IF dirsMade
             THEN pc' = "loop" /\ ci' = 1 /\ UNCHANGED raisedAt
             ELSE pc' = "raised" /\ raisedAt' = "makedirs" /\ UNCHANGED ci
    /\ UNCHANGED <<fontFiles, charList, exportJpg, fi, handles, attempted,
                   svgWritten, jpgWritten, skipped, printed, returned>>
    /\ unchangedOthers

\* "if cp not in cmap" with cmap None: a TypeError, raised outside the try
LookupInNoCmap ==
    /\ pc = "loop" /\ ci <= Len(charList)
    /\ ~cmap.table
    /\ pc' = "raised" /\ raisedAt' = "cmap"
    /\ UNCHANGED <<fontFiles, charList, exportJpg, fi, ci, cmap, handles,
                   attempted, svgWritten, jpgWritten, skipped, printed,
                   returned>>
    /\ unchangedOthers

\* a slip: glyph_name = cmap[cp] without the membership test, a KeyError
SkipCharKeyError ==
    /\ pc = "loop" /\ ci <= Len(charList)
    /\ cmap.table /\ charList[ci] \notin cmap.chars
    /\ pc' = "raised" /\ raisedAt' = "lookup"
    /\ UNCHANGED <<fontFiles, charList, exportJpg, fi, ci, cmap, handles,
                   attempted, svgWritten, jpgWritten, skipped, printed,
                   returned>>
    /\ unchangedOthers

\* if cp not in cmap: continue
SkipChar ==
    /\ pc = "loop" /\ ci <= Len(charList)
    /\ cmap.table /\ charList[ci] \notin cmap.chars
    /\ skipped' = skipped \cup {charList[ci]}
    /\ ci' = ci + 1
    /\ UNCHANGED <<fontFiles, charList, exportJpg, pc, fi, cmap, handles,
                   attempted, svgWritten, jpgWritten, printed, returned,
                   raisedAt>>
    /\ unchangedOthers

\* what the two exporters of one character can do: "ok"; "early", a failure
\* in the bounds, the traversal or the serialisation, before the .svg file is
\* opened; "write", a failure writing the .svg file, which open() has
\* created; "jpg", a failure of export_jpg_by_pillow after the .svg file was
\* written (with export_jpg only)
Outcomes == {"ok", "early", "write", "jpg"}

\* a slip: the exporters called outside any try, so that a failure is raised
ExportCharUncaught ==
    /\ pc = "loop" /\ ci <= Len(charList)
    /\ cmap.table /\ charList[ci] \in cmap.chars
    /\ \E o \in Outcomes :
          /\ o = "jpg" => exportJpg
          /\ attempted' = attempted \cup {charList[ci]}
          /\ svgWritten' = IF o = "early" THEN svgWritten
                           ELSE svgWritten \cup {charList[ci]}
          /\ jpgWritten' = IF o = "ok" /\ exportJpg
                           THEN jpgWritten \cup {charList[ci]} ELSE jpgWritten
          /\ IF o = "ok"
             THEN ci' = ci + 1 /\ UNCHANGED <<pc, raisedAt>>
             ELSE pc' = "raised" /\ raisedAt' = "export" /\ UNCHANGED ci
    /\ UNCHANGED <<fontFiles, charList, exportJpg, fi, cmap, handles, skipped,
                   printed, returned>>
    /\ unchangedOthers

\* try: export_svg_for_glyph_dynamic(...); if export_jpg:
\* export_jpg_by_pillow(...)  except Exception as e: print(...)
\* (the failures are Exceptions, and print can write the message)
ExportChar ==
    /\ pc = "loop" /\ ci <= Len(charList)
    /\ cmap.table /\ charList[ci] \in cmap.chars
    /\ \E o \in Outcomes :
          /\ o = "jpg" => exportJpg
          /\ attempted' = attempted \cup {charList[ci]}
          /\ svgWritten' = IF o = "early" THEN svgWritten
                           ELSE svgWritten \cup {charList[ci]}
          /\ jpgWritten' = IF o = "ok" /\ exportJpg
                           THEN jpgWritten \cup {charList[ci]} ELSE jpgWritten
          /\ printed' = IF o = "ok" THEN printed
                        ELSE printed \cup {charList[ci]}
    /\ ci' = ci + 1
    /\ UNCHANGED <<fontFiles, charList, exportJpg, pc, fi, cmap, handles,
                   skipped, returned, raisedAt>>
    /\ unchangedOthers

\* font.close(), and process_font_file returns
CloseFont ==
    /\ pc = "loop" /\ ci > Len(charList)
    /\ handles' = handles \ {fi}
    /\ returned' = returned \cup {fi}
    /\ pc' = "main"
    /\ UNCHANGED <<fontFiles, charList, exportJpg, fi, ci, cmap, attempted,
                   svgWritten, jpgWritten, skipped, printed, raisedAt>>
    /\ unchangedOthers

Next ==
    \/ MainNextFont
    \/ MainDone
    \/ OpenFont
    \/ SetupFont
    \/ LookupInNoCmap
    \/ SkipChar
    \/ ExportChar
    \/ CloseFont

Spec == Init /\ [][Next]_vars

-----------------------------------------------------------------------------
(***************************************************************************)
(* Properties of the canonicalisation (SpecPath).                          *)
(***************************************************************************)

\* the characters of s that lie outside every numeric token
Outside(s) ==
    {k \in 1..Len(s) : \A t \in Tokens(s) : k < t[1] \/ k > t[2]}

\* well-formed path text: besides numeric tokens there are only command
\* letters, commas and whitespace, and no numeric token starts right where
\* another ends
WellFormed(s) ==
    /\ \A k \in Outside(s) : s[k] \in CmdLetters \cup Whitespace \cup {","}
    /\ \A t \in Tokens(s), u \in Tokens(s) : u[1] # t[2] + 1

\* a raw path render: well-formed text that starts with a command letter
IsRender(s) == s # << >> /\ s[1] \in CmdLetters /\ WellFormed(s)

Count(s, c) == Cardinality({k \in 1..Len(s) : s[k] = c})

SingleSpaced(s) ==
    /\ \A k \in 1..Len(s) : s[k] \in Whitespace => s[k] = " "
    /\ \A k \in 1..(Len(s) - 1) : ~(s[k] = " " /\ s[k + 1] = " ")
    /\ s # << >> => s[1] # " " /\ s[Len(s)] # " "

\* (CommandLetter Number*)+ with single-space separators: command letters
\* and integers only, a space between two numbers, between a number and the
\* letter after it and between two letters; a letter may carry its first
\* number directly, as in "M11 20 C30 40"
MatchesGrammar(s) ==
    /\ s # << >> /\ s[1] \in CmdLetters
    /\ \A k \in 1..Len(s) : s[k] \in CmdLetters \cup Digits \cup {"-", " "}
    /\ SingleSpaced(s)
    /\ \A k \in 1..(Len(s) - 1) :
          /\ s[k] = "-" => s[k + 1] \in Digits
          /\ s[k + 1] = "-" => s[k] \notin Digits
          /\ s[k + 1] \in CmdLetters => s[k] = " "
    /\ s[Len(s)] # "-"

\* "M11 20 C30 40 50 60 70 80"
ScenarioDSpec ==
    <<"M", "1", "1", " ", "2", "0", " ", "C", "3", "0", " ", "4", "0", " ",
      "5", "0", " ", "6", "0", " ", "7", "0", " ", "8", "0">>

\* "M 11,20 C 30,40,50,60,70,80"
ScenarioDCode ==
    <<"M", " ", "1", "1", ",", "2", "0", " ", "C", " ", "3", "0", ",", "4",
      "0", ",", "5", "0", ",", "6", "0", ",", "7", "0", ",", "8", "0">>

\* C7, as stated: the canonical form of every raw render matches
\* (CommandLetter Number*)+ with single-space separators and nothing else
\* (no comma remains), and scenario D yields "M11 20 C30 40 50 60 70 80".
C7_GrammarClaim ==
    stage >= 2 /\ IsRender(raw) =>
        /\ MatchesGrammar(canon1)
        /\ raw = ScenarioD => canon1 = ScenarioDSpec

\* C7, amended: the canonical form of every raw render holds only command
\* letters, integer tokens, commas and single spaces, has no whitespace at
\* either end, keeps every comma of the render, and has exactly one space
\* between a command letter and a digit next to it; scenario D yields
\* "M 11,20 C 30,40,50,60,70,80".
C7_CanonicalForm ==
    stage >= 2 /\ IsRender(raw) =>
        /\ \A k \in 1..Len(canon1) :
              canon1[k] \in CmdLetters \cup Digits \cup {"-", ",", " "}
        /\ SingleSpaced(canon1)
        /\ Count(canon1, ",") = Count(raw, ",")
        /\ \A k \in 1..(Len(canon1) - 1) :
              /\ ~(canon1[k] \in CmdLetters /\ canon1[k + 1] \in Digits)
              /\ ~(canon1[k] \in Digits /\ canon1[k + 1] \in CmdLetters)
        /\ raw = ScenarioD => canon1 = ScenarioDCode

\* scenario D has been canonicalised, commas kept
C7_Witness == stage >= 2 /\ raw = ScenarioD /\ canon1 = ScenarioDCode

\* the text round_path_data would give if ties went away from zero
RECURSIVE HalfAwayFrom(_, _)
HalfAwayFrom(s, i) ==
    IF i > Len(s) THEN << >>
    ELSE LET e == MatchEnd(s, i)
             t == ParseNumber(s, i, e)
             I == IntDigits(t)
         IN  IF e = 0 THEN <<s[i]>> \o HalfAwayFrom(s, i + 1)
             ELSE RenderInt(t.neg, IF CmpHalf(FracDigits(t)) >= 0
                                   THEN Increment(I) ELSE I)
                  \o HalfAwayFrom(s, e + 1)

\* C8, as stated: round_path_data replaces every numeric token by the
\* nearest integer, a tie going to the integer of larger magnitude
\* (0.5 -> 1, 2.5 -> 3, -2.5 -> -3).
C8_HalfAwayFromZero == stage >= 1 => rounded1 = HalfAwayFrom(raw, 1)

\* C9, as stated: canon(canon(d)) = canon(d) for every string d over the
\* path alphabet.
C9_IdempotentClaim == stage = 4 => cur = canon1

\* C9, amended: canon(canon(d)) = canon(d) for every well-formed d, that is
\* when every character outside the numeric tokens is a command letter, a
\* comma or whitespace and no numeric token starts right where another ends.
C9_IdempotentWellFormed == stage = 4 /\ WellFormed(raw) => cur = canon1

\* a well-formed text that both steps change has been canonicalised twice
C9_Witness ==
    /\ stage = 4 /\ WellFormed(raw)
    /\ rounded1 # raw /\ canon1 # rounded1 /\ cur = canon1

-----------------------------------------------------------------------------
(***************************************************************************)
(* Properties of safe_name_for_file (SpecName).                            *)
(***************************************************************************)
IsHexChar(c) == c \in (48..57) \cup (65..70)

RECURSIVE HexValue(_)
HexValue(h) ==
    IF h = << >> THEN 0
    ELSE 16 * HexValue(SubSeq(h, 1, Len(h) - 1))
         + (IF h[Len(h)] <= 57 THEN h[Len(h)] - 48 ELSE h[Len(h)] - 55)

\* name is "U+" and at least four upper-case hexadecimal digits that spell cp
IsUPlusForm(name, cp) ==
    /\ Len(name) >= 6
    /\ name[1] = 85 /\ name[2] = 43
    /\ \A k \in 3..Len(name) : IsHexChar(name[k])
    /\ HexValue(SubSeq(name, 3, Len(name))) = cp

NameAsClaimed(name, char) ==
    /\ \A k \in 1..Len(name) : name[k] \notin ReservedChars
    /\ IF char \in ReservedChars \/ CategoryC(char) \/ IsSpace(char)
       THEN IsUPlusForm(name, char)
       ELSE name = <<char>>

\* C10: the name of a character never holds a reserved character
\* (/ \ : * ? " < > |); a reserved, C*-category or whitespace character is
\* named U+XXXX (at least four upper-case hexadecimal digits of its code
\* point) and any other character is named by itself; the exporter's copy and
\* the dataset assembler's copy give the same name.
C10_SafeNamesAgree ==
    /\ pcName # "start" => NameAsClaimed(exporterName, nameChar)
    /\ pcName = "assembled" =>
          /\ NameAsClaimed(datasetName, nameChar)
          /\ datasetName = exporterName

\* the backslash has been named U+005C by both copies
C10_Witness ==
    /\ pcName = "assembled" /\ nameChar = 92
    /\ exporterName = <<85, 43, 48, 48, 53, 67>>
    /\ datasetName = exporterName

-----------------------------------------------------------------------------
(***************************************************************************)
(* Properties of the exported document (SpecBox).                          *)
(***************************************************************************)

\* C5: a glyph with an empty outline, whose box is resolved as 0,0,0,0, is
\* written as a document of width and height S, view box 0 0 S S and path
\* data "M0 0", for every canvas size S.
C5_EmptyGlyphDocument ==
    pcBox = "written" /\ glyph.pts = << >> /\ bounds = <<0, 0, 0, 0>> =>
        /\ doc.width = scale_size /\ doc.height = scale_size
        /\ doc.viewBox = <<0, 0, scale_size, scale_size>>
        /\ doc.d = <<"M", "0", " ", "0">>

\* an empty glyph has been written on a canvas of size 3
C5_Witness ==
    /\ pcBox = "written" /\ glyph.pts = << >> /\ bounds = <<0, 0, 0, 0>>
    /\ scale_size = 3 /\ doc.width = 3 /\ doc.d = <<"M", "0", " ", "0">>

\* C6, as stated: the transform maps the four corners of the bounding box
\* into [0, round(width*scale)] x [0, round(height*scale)], width and height
\* taken after the zero-dimension fallback; boxes with exactly one zero
\* dimension included.
C6_CornersInsideCanvas ==
    pcBox = "written" =>
        LET wh == Extent(bounds, scale_size)
            m  == ScaleDen(bounds, scale_size)
        IN  \A x \in {bounds[1], bounds[3]}, y \in {bounds[2], bounds[4]} :
              /\ 0 <= TransformX(x, bounds, scale_size)
              /\ TransformX(x, bounds, scale_size)
                    <= RoundRat(wh[1] * scale_size, m) * m
              /\ 0 <= TransformY(y, bounds, scale_size)
              /\ TransformY(y, bounds, scale_size)
                    <= RoundRat(wh[2] * scale_size, m) * m

-----------------------------------------------------------------------------
(***************************************************************************)
(* Properties of main and process_font_file (Spec).                        *)
(***************************************************************************)

\* the positions of charList the loop of the current font has gone through
Passed == 1..(ci - 1)

\* process_font_file has returned for the current font
Returned == pc = "main" /\ fi \in returned

\* C1: a failure raised by the exporters of one character is not raised out
\* of process_font_file; every character of the font's cmap that the loop has
\* gone past was handed to the exporters, whichever characters failed, and
\* when process_font_file returns the loop has gone past the whole list.
C1_FailureDoesNotAbort ==
    /\ raisedAt # "export"
    /\ cmap.table =>
          \A k \in Passed : charList[k] \in cmap.chars
                                => charList[k] \in attempted
    /\ Returned => ci = Len(charList) + 1

\* process_font_file returned after a character failed and a later one was
\* exported
C1_Witness ==
    /\ Returned
    /\ \E j \in 1..Len(charList), k \in 1..Len(charList) :
          /\ j < k
          /\ charList[j] \in printed
          /\ charList[k] \in attempted /\ charList[k] \in svgWritten

\* C2, as stated: the font handle is closed on every exit of
\* process_font_file, by return or by exception.
C2_HandleClosedOnExit == pc \in {"main", "done", "raised"} => handles = {}

\* C3, as stated: when fonts fail to open (and nothing else fails), main
\* has, at its end, processed every font that opens.
C3_OtherFontsProcessed ==
    pc \in {"done", "raised"} /\ raisedAt \in {None, "TTFont"} =>
        \A i \in 1..Len(fontFiles) :
            fontFiles[i] # "corrupt" => i \in returned

\* C4: a character absent from the font's cmap gets no .svg and no .jpg
\* file, raises nothing, and the characters after it are still processed.
C4_AbsentCharSkipped ==
    /\ raisedAt # "lookup"
    /\ cmap.table =>
          \A j \in Passed :
              charList[j] \notin cmap.chars =>
                  /\ charList[j] \notin svgWritten \cup jpgWritten
                  /\ charList[j] \notin attempted
                  /\ \A k \in Passed :
                        k > j /\ charList[k] \in cmap.chars
                            => charList[k] \in attempted
    /\ Returned /\ cmap.table => Passed = 1..Len(charList)

\* process_font_file returned after skipping an absent character and
\* exporting a later one
C4_Witness ==
    /\ Returned
    /\ \E j \in 1..Len(charList), k \in 1..Len(charList) :
          /\ j < k
          /\ charList[j] \in skipped
          /\ charList[k] \in svgWritten

=============================================================================
